---- MODULE Spec2Model ----
(***************************************************************************)
(* A model of the ts-pixel tracking core: the bounded event buffer, the    *)
(* single-flight transport client, the frame-driven TaskManager and the    *)
(* send task that glues them together.                                     *)
(*                                                                         *)
(* The repository holds two assemblies of the same core:                   *)
(*   "promise"    GoPixel (unnamed/part_002) + EventSender                 *)
(*                (unnamed/part_007) + sendEventTask (task-send-event.ts)  *)
(*   "observable" Tracker (unnamed/part_003) + EventSender / EventClient   *)
(*                (events-sender.ts)                                       *)
(* both driven by TaskManager (task-manager.ts).  The variable gen says    *)
(* which assembly a behaviour runs; it never changes.  For the observable  *)
(* assembly the scheduler's then-handler receives the value the callback's *)
(* observable emits and its catch-handler the error it raises.             *)
(*                                                                         *)
(* Time is in milliseconds.  Only the instants the code reads matter:      *)
(* performance.now() in taskWrapper and in addTask.                        *)
(***************************************************************************)
EXTENDS Integers, Sequences, FiniteSets, TLC

----------------------------------------------------------------------------
(* Bounds of the model *)

\* capacity of the buffer (EventSender.MAX_BUFFER_SIZE, scaled down)
MAX_BUFFER_SIZE == 2
\* number of events ever created
MaxEvents == 4
\* last instant of the clock
MaxTime == 250
\* pending invocations of the second task
MaxPending == 1
\* performance.now() when the page starts
StartTime == 50
\* rate of the second registered task, in Hz
HeartbeatFps == 20

\* steps between two frames, in milliseconds
TickSteps == {50, 100}
\* payloads nest at most this many levels
MaxDepth == 2
\* frame callbacks that may be pending beside the one the scheduler holds
MaxOrphans == 1
\* the keys a payload may carry
Keys == {"a", "b"}

----------------------------------------------------------------------------
(* Program constants *)

MAX_ERRORS == 3
SendTaskFps == 10

Success == "Success"
Skip == "Skip"
Failure == "Failure"

StopExecution == "stop"
Retry == "retry"
Continue == "continue"

DEFAULT_FAILURE_POLICY == Retry

SendTaskName == "eventSender"
HeartbeatName == "heartbeat"
TaskNames == {SendTaskName, HeartbeatName}

Gens == {"promise", "observable"}

\* the value of EventClient.request / EventSender.request when no request is held
Undefined == [owner |-> "undefined", batch |-> << >>, now |-> 0, observed |-> FALSE]

VARIABLES
    gen,            \* the assembly: "promise" or "observable"
    buffer,         \* GoPixel.buffer / EventSender.buffer: sequence of event ids
    isStarted,      \* GoPixel.isStarted / EventSender.isStarted
    killSwitch,     \* GoPixel.killSwitch / EventSender.killSwitch
    initialized,    \* GoPixel.initialized / Tracker.initialized
    hook,           \* a beforeunload listener is registered
    request,        \* the transport client's in-flight handle, or Undefined
    net,            \* the fetch calls that have not settled
    tasks,          \* TaskManager.tasks: sequence of TaskRegistered
    subscription,   \* TaskManager.subscription: "none", "pending", "cancelled",
                    \* "fired" (the frame ran and no other was requested)
    orphans,        \* pending frame callbacks whose id the scheduler no longer holds
    hb,             \* tick instants of the second task's unsettled callbacks
    clock,          \* the last instant read from performance.now()
    nextId,         \* id of the next event created
    since,          \* history: events accepted into the buffer since the last drain by the send task
    fired,          \* history: per task, the instant of its last callback invocation (0: none)
    early,          \* history: per task, a callback invocation came too soon after the one before
    killCalled,     \* history: kill() was called on a running scheduler
    killed,         \* history: the tracker's kill() was called
    payload,        \* the WebEventPayload handed to the WebEvent constructor
    cleaned,        \* WebEvent.payload: what the constructor stored
    cleanings,      \* how many events were constructed from this payload chain
    accepted,       \* history: the events the buffer took in, in order
    delivered,      \* history: the events of the batches whose request succeeded
    preStart,       \* history: the events the buffer took in before start()
    firstBatch,     \* history: the first batch handed to fetch (<< >>: none yet)
    ev              \* history: the last operation and what it returned

vars == <<gen, buffer, isStarted, killSwitch, initialized, hook, request, net,
          tasks, subscription, orphans, hb, clock, nextId, since, fired, early, killCalled,
          killed, payload, cleaned, cleanings, accepted, delivered, preStart,
          firstBatch, ev>>

----------------------------------------------------------------------------
(* The buffer *)

\* a capacity test that lets one event too many in
BufferFullLate(buf) == Len(buf) > MAX_BUFFER_SIZE

\* EventSender.push / GoPixel.push: the capacity test
BufferFull(buf) == Len(buf) >= MAX_BUFFER_SIZE

\* a push that never drops
PushNoLimit(buf, e) == Append(buf, e)

\* EventSender.push / GoPixel.push: the buffer after push(e)
Push(buf, e) == IF BufferFull(buf) THEN buf ELSE Append(buf, e)

\* GoPixel.pushEvent: the factory's event is appended
PushEvent(buf, e) == Append(buf, e)

\* a consume() that does not look at the start flag
ConsumeEventsUnguarded(started, buf) == buf

\* a consume() that hands the events over newest first
ConsumeEventsReversed(started, buf) ==
    IF ~started THEN << >> ELSE [k \in 1..Len(buf) |-> buf[Len(buf) + 1 - k]]

\* a consume() that returns the buffer without its first event
ConsumeEventsTail(started, buf) ==
    IF ~started \/ buf = << >> THEN << >> ELSE Tail(buf)

\* consume(): the events returned
ConsumeEvents(started, buf) == IF ~started THEN << >> ELSE buf

\* a consume() that leaves the newest event in the buffer
ConsumeBufferKeepsLast(started, buf) ==
    IF ~started \/ buf = << >> THEN buf ELSE <<buf[Len(buf)]>>

\* a consume() that returns the events and keeps them buffered
ConsumeBufferKeeps(started, buf) == buf

\* consume(): the buffer left
ConsumeBuffer(started, buf) == IF ~started THEN buf ELSE << >>

\* buffer.unshift(...events)
Unshift(buf, events) == events \o buf

----------------------------------------------------------------------------
(* The transport client *)

\* isFree()
IsFree(req) == req = Undefined

\* a sendEvent that never finds the lock held
BusyNever(req) == FALSE

\* sendEvent: the test of the lock
Busy(req) == req # Undefined

\* releaseLock()
ReleaseLock(req) == Undefined

\* a fetch call in flight: who will observe it, the batch it carries, and for a
\* call made by the send task the instant `now` its tick captured
Req(events, owner, now, observed) ==
    [owner |-> owner, batch |-> events, now |-> now, observed |-> observed]

\* a sendEvent without the test for an empty batch
SendResultNoEmptyTest(req, events) ==
    IF Busy(req) THEN "busy" ELSE "issued"

\* sendEvent: "empty" (nothing to send), "busy" (the lock is held), or
\* "issued" (one fetch is made and the lock taken)
SendResult(req, events) ==
    IF Len(events) = 0 THEN "empty"
    ELSE IF Busy(req) THEN "busy"
    ELSE "issued"

\* a sendEvent that stores the new request before testing the lock
SendEventClobber(m, events, owner, now, observed) ==
    IF Len(events) = 0 THEN m
    ELSE [m EXCEPT !.request = Req(events, owner, now, observed),
                   !.net = @ \cup {Req(events, owner, now, observed)}]

\* sendEvent(events) on the machine state m
SendEvent(m, events, owner, now, observed) ==
    IF SendResult(m.request, events) = "issued"
    THEN [m EXCEPT !.request = Req(events, owner, now, observed),
                   !.net = @ \cup {Req(events, owner, now, observed)},
                   !.since = IF owner = "direct" THEN @ ELSE << >>]
    ELSE m

----------------------------------------------------------------------------
(* The send task *)

\* sendEventTask (promise assembly): the code its promise settles with at
\* once, or "Pending" when a request was issued.  The first resolve() wins;
\* the executor does not return after resolve(Skip).
SendEventTaskCode(m) ==
    IF Len(m.buffer) = 0 THEN Skip
    ELSE IF ~IsFree(m.request) THEN Skip
    ELSE IF SendResult(m.request, ConsumeEvents(m.isStarted, m.buffer)) = "issued"
         THEN "Pending"
         ELSE Success

\* sendEventTask (promise assembly): the executor always reaches consume()
\* and sendEvent()
SendEventTask(m, now) ==
    SendEvent([m EXCEPT !.buffer = ConsumeBuffer(m.isStarted, m.buffer)],
              ConsumeEvents(m.isStarted, m.buffer), "task", now, TRUE)

\* a sendEvents that does not look at the kill switch
SendEventsCodeNoKillSwitch(m) ==
    IF ~m.isStarted THEN Failure
    ELSE IF Len(m.buffer) = 0 THEN Skip
    ELSE IF ~IsFree(m.request) THEN Skip
    ELSE IF SendResult(m.request, ConsumeEvents(m.isStarted, m.buffer)) = "issued"
         THEN "Pending"
         ELSE Success

\* EventSender.sendEvents (observable assembly): the code returned at once,
\* or "Pending" when a request was issued
SendEventsCode(m) ==
    IF ~m.isStarted THEN Failure
    ELSE IF m.killSwitch THEN Skip
    ELSE IF Len(m.buffer) = 0 THEN Skip
    ELSE IF ~IsFree(m.request) THEN Skip
    ELSE IF SendResult(m.request, ConsumeEvents(m.isStarted, m.buffer)) = "issued"
         THEN "Pending"
         ELSE Success

\* EventSender.sendEvents (observable assembly), subscribed by owner
SendEvents(m, owner, now) ==
    IF SendEventsCode(m) \in {Failure, Skip}
    THEN m
    ELSE SendEvent([m EXCEPT !.buffer = ConsumeBuffer(m.isStarted, m.buffer)],
                   ConsumeEvents(m.isStarted, m.buffer), owner, now, TRUE)

\* the send task's callback in the running assembly
SendCallbackCode(m) ==
    IF gen = "promise" THEN SendEventTaskCode(m) ELSE SendEventsCode(m)

SendCallback(m, now) ==
    IF gen = "promise" THEN SendEventTask(m, now) ELSE SendEvents(m, "task", now)

\* what the sendEvent call made by the send task's callback did ("none": no call)
SendCallbackSend(m) ==
    IF gen = "observable" /\ SendEventsCode(m) \in {Failure, Skip}
    THEN "none"
    ELSE SendResult(m.request, ConsumeEvents(m.isStarted, m.buffer))

----------------------------------------------------------------------------
(* TaskManager *)

\* addTask: the record pushed
TaskRegistered(name, fps, policy, now) ==
    [name |-> name, fps |-> fps, failurePolicy |-> policy,
     lastTime |-> now, errors |-> 0]

\* taskWrapper: elapsed < frameDuration, with frameDuration = 1000 / fps
TooEarly(task, now) == (now - task.lastTime) * task.fps < 1000

\* a kill() that marks the scheduler cancelled whatever it finds
CancelAlways(sub) == "cancelled"

\* a kill() that forgets to cancel the frame
CancelNothing(sub) == sub

\* kill(): cancelAnimationFrame on the stored handle, if any
CancelAnimationFrame(sub) == IF sub = "pending" THEN "cancelled" ELSE sub

\* kill()
TaskManagerKill(m) ==
    [m EXCEPT !.subscription = CancelAnimationFrame(@),
              !.killCalled = @ \/ (m.subscription = "pending")]

\* a StopExecution policy that waits for the threshold, like Retry
PolicyKillsStopLate(task) ==
    CASE task.failurePolicy = Continue -> FALSE
      [] OTHER                         -> task.errors >= MAX_ERRORS

\* a Continue policy that gives up at the threshold, like Retry
PolicyKillsContinue(task) ==
    CASE task.failurePolicy = StopExecution -> TRUE
      [] OTHER                              -> task.errors >= MAX_ERRORS

\* a Retry policy that kills one failure late
PolicyKillsLate(task) ==
    CASE task.failurePolicy = Continue -> FALSE
      [] task.failurePolicy = Retry    -> task.errors > MAX_ERRORS
      [] OTHER                         -> TRUE

\* applyFailurePolicy: whether the policy asks for kill()
PolicyKills(task) ==
    CASE task.failurePolicy = Continue -> FALSE
      [] task.failurePolicy = Retry    -> task.errors >= MAX_ERRORS
      [] OTHER                         -> TRUE

\* a failure policy whose kill also empties the event buffer
ApplyFailurePolicyClears(m, i) ==
    IF PolicyKills(m.tasks[i])
    THEN [TaskManagerKill(m) EXCEPT !.buffer = << >>]
    ELSE m

\* applyFailurePolicy(task)
ApplyFailurePolicy(m, i) ==
    IF PolicyKills(m.tasks[i]) THEN TaskManagerKill(m) ELSE m

\* a then-handler that also resets the count on Skip
ErrorsAfterSkipResets(errors, code) ==
    CASE code = Success -> 0
      [] code = Skip    -> 0
      [] OTHER          -> errors + 1

\* the error count after a settled code, in the then-handler
ErrorsAfter(errors, code) ==
    CASE code = Success -> 0
      [] code = Skip    -> errors
      [] OTHER          -> errors + 1

\* the then-handler of task i's callback promise, for the tick at `now`
OnThen(m, i, now, code) ==
    LET m1 == [m EXCEPT !.tasks[i].lastTime = now,
                        !.tasks[i].errors = ErrorsAfter(@, code)]
    IN  IF code \in {Success, Skip} THEN m1 ELSE ApplyFailurePolicy(m1, i)

\* the catch-handler of task i's callback promise
OnCatch(m, i) ==
    ApplyFailurePolicy([m EXCEPT !.tasks[i].errors = @ + 1], i)

\* the handler run for an outcome known at once: a code, "Reject", or none
OnOutcome(m, i, now, out) ==
    IF out \in {Success, Skip, Failure} THEN OnThen(m, i, now, out)
    ELSE IF out = "Reject" THEN OnCatch(m, i)
    ELSE m

----------------------------------------------------------------------------
(* The machine state the handlers work on, and one frame of the drive loop *)

Machine ==
    [buffer |-> buffer, isStarted |-> isStarted, killSwitch |-> killSwitch,
     request |-> request, net |-> net, tasks |-> tasks,
     subscription |-> subscription, hb |-> hb,
     since |-> since, fired |-> fired, early |-> early, killCalled |-> killCalled,
     killed |-> killed]

Commit(m) ==
    /\ buffer' = m.buffer
    /\ isStarted' = m.isStarted
    /\ killSwitch' = m.killSwitch
    /\ request' = m.request
    /\ net' = m.net
    /\ tasks' = m.tasks
    /\ subscription' = m.subscription
    /\ hb' = m.hb
    /\ since' = m.since
    /\ fired' = m.fired
    /\ early' = m.early
    /\ killCalled' = m.killCalled
    /\ killed' = m.killed

NoOutcome == [n \in TaskNames |-> "none"]

\* what the second task's callback may do: settle at once with a code, reject
\* at once, or stay pending
HeartbeatBehaviours == {Success, Skip, Failure, "Reject", "Pending"}
SettledBehaviours == {Success, Skip, Failure, "Reject"}

\* index of the task called name (0 when it is not registered)
TaskIndex(ts, name) ==
    IF \E i \in 1..Len(ts) : ts[i].name = name
    THEN CHOOSE i \in 1..Len(ts) : ts[i].name = name
    ELSE 0

\* task.callback(): what is known of its result when it returns
CallbackCode(m, i, c) ==
    IF m.tasks[i].name = SendTaskName THEN SendCallbackCode(m) ELSE c

\* task.callback(): its effect, the invocation noted in the history
Callback(m, i, now, c) ==
    LET n     == m.tasks[i].name
        noted == [m EXCEPT !.fired[n] = now,
                           !.early[n] = @ \/ (m.fired[n] # 0 /\
                                              (now - m.fired[n]) * m.tasks[i].fps < 1000)]
    IN  IF m.tasks[i].name = SendTaskName THEN SendCallback(noted, now)
        ELSE IF c = "Pending" THEN [noted EXCEPT !.hb = @ \cup {now}]
        ELSE noted

\* taskWrapper: the for loop over the tasks, from task i on
RECURSIVE RunCallbacks(_, _, _, _, _)
RunCallbacks(m, outs, i, now, c) ==
    IF i > Len(m.tasks) THEN [m |-> m, outs |-> outs]
    ELSE IF TooEarly(m.tasks[i], now) THEN RunCallbacks(m, outs, i + 1, now, c)
    ELSE RunCallbacks(Callback(m, i, now, c),
                      [outs EXCEPT ![m.tasks[i].name] = CallbackCode(m, i, c)],
                      i + 1, now, c)

\* the handlers of the promises that are settled when taskWrapper returns
RECURSIVE RunHandlers(_, _, _, _)
RunHandlers(m, outs, i, now) ==
    IF i > Len(m.tasks) THEN m
    ELSE RunHandlers(OnOutcome(m, i, now, outs[m.tasks[i].name]), outs, i + 1, now)

\* taskWrapper at instant now: the loop, the next frame requested, then the
\* handlers of the settled promises
TaskWrapper(m, now, c) ==
    LET r == RunCallbacks(m, NoOutcome, 1, now, c)
    IN  RunHandlers([r.m EXCEPT !.subscription = "pending"], r.outs, 1, now)

TaskWrapperOuts(m, now, c) == RunCallbacks(m, NoOutcome, 1, now, c).outs

\* the last operation
Op(op, send, out, ret) ==
    [op |-> op, send |-> send, out |-> out, ret |-> ret]

----------------------------------------------------------------------------
(* Settling *)

NetResults == {"ok", "status", "network"}

\* a transport client that turns a non-success status into a false result
ResultOfStatusFalse(res) ==
    IF res = "ok" THEN "true" ELSE IF res = "status" THEN "false" ELSE "error"

\* sendEvent: what the caller gets when the fetch settles with res: the
\* result true, or an error
ResultOf(res) == IF res = "ok" THEN "true" ELSE "error"

\* sendEvents / sendEventTask: the error handler puts the batch back
Reinject(m, r) == [m EXCEPT !.buffer = Unshift(@, r.batch)]

\* the machine as the caller's handler finds it when the fetch of r settles:
\* EventSender.sendEvent (promise assembly) calls releaseLock() before it
\* resolves or rejects; EventClient.sendEvent (observable assembly) releases
\* in finalize, which runs after the subscriber was notified
AtHandler(m, r) ==
    LET gone == [m EXCEPT !.net = @ \ {r}]
    IN  IF gen = "promise" THEN [gone EXCEPT !.request = ReleaseLock(@)]
        ELSE gone

\* the handlers run when the fetch of request r settles with res: a success
\* status ("ok"), another status, or a network failure
SettleRequest(m, r, res) ==
    LET i        == TaskIndex(m.tasks, SendTaskName)
        gone     == [m EXCEPT !.net = @ \ {r}]
        released == [gone EXCEPT !.request = ReleaseLock(@)]
    IN  IF gen = "promise"
        THEN \* EventSender.sendEvent: then / catch release the lock, then
             \* resolve or reject the promise the caller holds
             IF r.owner = "task"
             THEN IF ResultOf(res) # "error"
                  THEN OnThen(AtHandler(m, r), i, r.now, Success)
                  ELSE OnCatch(Reinject(AtHandler(m, r), r), i)
             ELSE released
        ELSE \* EventClient.sendEvent: map, the subscriber's handler, then
             \* finalize; nothing runs when nobody subscribed
             IF r.owner = "task"
             THEN [(IF ResultOf(res) # "error"
                    THEN OnThen(AtHandler(m, r), i, r.now, Success)
                    ELSE OnCatch(Reinject(AtHandler(m, r), r), i))
                   EXCEPT !.request = ReleaseLock(@)]
             ELSE IF r.owner = "flush"
             THEN [(IF ResultOf(res) # "error" THEN AtHandler(m, r)
                    ELSE Reinject(AtHandler(m, r), r))
                   EXCEPT !.request = ReleaseLock(@)]
             ELSE IF r.observed THEN released
             ELSE gone

----------------------------------------------------------------------------
(* Payloads *)

\* new WebEventPayload(): an object with no own key
NoFields == << >>

\* the values a key may hold besides a nested payload; 0 stands for the
\* values that are neither undefined nor null, falsy ones included
Leaves == {[tag |-> "undefined", fields |-> NoFields],
           [tag |-> "null", fields |-> NoFields],
           [tag |-> "zero", fields |-> NoFields]}

\* a value that is an instance of WebEventPayload
Nested(p) == [tag |-> "payload", fields |-> p]

\* the payloads of at most d levels over Keys
RECURSIVE Payloads(_)
Payloads(d) ==
    IF d = 0 THEN {}
    ELSE LET values == Leaves \cup {Nested(q) : q \in Payloads(d - 1)}
         IN  UNION {[S -> values] : S \in SUBSET Keys}

\* a cleanUp that keeps a value only when it is truthy
RECURSIVE CleanUpTruthy(_)
CleanUpTruthy(p) ==
    LET kept == {k \in DOMAIN p : p[k].tag = "payload"}
    IN  [k \in kept |-> Nested(CleanUpTruthy(p[k].fields))]

\* a cleanUp that drops a nested payload that was handed in empty
RECURSIVE CleanUpDropsEmpty(_)
CleanUpDropsEmpty(p) ==
    LET kept == {k \in DOMAIN p :
                    IF p[k].tag = "payload"
                    THEN p[k].fields # NoFields
                    ELSE p[k].tag # "undefined" /\ p[k].tag # "null"}
    IN  [k \in kept |-> IF p[k].tag = "payload"
                        THEN Nested(CleanUpDropsEmpty(p[k].fields))
                        ELSE p[k]]

\* Payload.cleanUp: a new payload with every own key of p whose value is a
\* payload (cleaned in turn) or is neither undefined nor null
RECURSIVE CleanUp(_)
CleanUp(p) ==
    LET kept == {k \in DOMAIN p :
                    IF p[k].tag = "payload"
                    THEN TRUE
                    ELSE p[k].tag # "undefined" /\ p[k].tag # "null"}
    IN  [k \in kept |-> IF p[k].tag = "payload"
                        THEN Nested(CleanUp(p[k].fields))
                        ELSE p[k]]

----------------------------------------------------------------------------
(* Operations *)

InitTracker ==
    /\ gen \in Gens
    /\ buffer = << >>
    /\ isStarted = FALSE
    /\ killSwitch = FALSE
    /\ initialized = FALSE
    /\ hook = (gen = "promise")
    /\ request = Undefined
    /\ net = {}
    /\ tasks = << >>
    /\ subscription = "none"
    /\ orphans = 0
    /\ hb = {}
    /\ clock = StartTime
    /\ nextId = 1
    /\ since = << >>
    /\ fired = [n \in TaskNames |-> 0]
    /\ early = [n \in TaskNames |-> FALSE]
    /\ killCalled = FALSE
    /\ killed = FALSE
    /\ ev = Op("new", "none", NoOutcome, FALSE)

\* nothing has happened yet
InitHistory ==
    /\ accepted = << >>
    /\ delivered = {}
    /\ preStart = << >>
    /\ firstBatch = << >>

Init ==
    /\ InitTracker
    /\ InitHistory
    /\ payload = NoFields
    /\ cleaned = NoFields
    /\ cleanings = 0

\* the events in sequence q that were created in this step
Created(q) == SelectSeq(q, LAMBDA e : nextId <= e /\ e < nextId')

\* the history of a step of the tracker, read off what the step did
Observe ==
    /\ accepted' = accepted \o Created(buffer')
    /\ delivered' = IF ev'.op = "settle" /\ ev'.ret
                    THEN delivered \cup UNION {{r.batch[k] : k \in 1..Len(r.batch)} :
                                                 r \in net \ net'}
                    ELSE delivered
    /\ preStart' = IF TaskIndex(tasks, SendTaskName) = 0 /\ ev'.op # "start"
                   THEN accepted \o Created(buffer')
                   ELSE preStart
    /\ firstBatch' = IF firstBatch = << >> /\ net' \ net # {}
                     THEN (CHOOSE r \in net' \ net : TRUE).batch
                     ELSE firstBatch

\* a step whose history is not recorded
Frozen == UNCHANGED <<accepted, delivered, preStart, firstBatch>>

\* the events of `pushed` that a buffer `after` gained over `before`
Accepted(before, after) == SubSeq(after, Len(before) + 1, Len(after))

\* GoPixel.init / Tracker.init: the two basic events, then tasks.start()
InitTracking ==
    /\ ~initialized
    /\ nextId + 1 <= MaxEvents
    /\ LET b == IF gen = "promise"
                THEN PushEvent(PushEvent(buffer, nextId), nextId + 1)
                ELSE Push(Push(buffer, nextId), nextId + 1)
       IN  /\ buffer' = b
           /\ since' = since \o Accepted(buffer, b)
    /\ nextId' = nextId + 2
    /\ initialized' = TRUE
    /\ subscription' = "pending"
    /\ ev' = Op("init", "none", NoOutcome, TRUE)
    /\ UNCHANGED <<gen, payload, cleaned, cleanings, orphans,
                   isStarted, killSwitch, hook, request, net, tasks, hb,
                   clock, fired, early, killCalled,
                   killed>>

\* GoPixel.start / Tracker.start, called once: the send task is registered
Start ==
    /\ TaskIndex(tasks, SendTaskName) = 0
    /\ isStarted' = TRUE
    /\ hook' = TRUE
    /\ tasks' = Append(tasks, TaskRegistered(SendTaskName, SendTaskFps, Retry, clock))
    /\ ev' = Op("start", "none", NoOutcome, TRUE)
    /\ UNCHANGED <<gen, payload, cleaned, cleanings, orphans,
                   buffer, killSwitch, initialized, request, net,
                   subscription, hb, clock, nextId, since, fired, early, killCalled,
                   killed>>

\* TaskManager.addTask for a second task; p is the policy it asks for
AddTask(p) ==
    /\ TaskIndex(tasks, HeartbeatName) = 0
    /\ tasks' = Append(tasks, TaskRegistered(HeartbeatName, HeartbeatFps,
                         IF p = "undefined" THEN DEFAULT_FAILURE_POLICY ELSE p, clock))
    /\ ev' = Op("addTask", "none", NoOutcome, TRUE)
    /\ UNCHANGED <<gen, payload, cleaned, cleanings, orphans,
                   buffer, isStarted, killSwitch, initialized, hook, request,
                   net, subscription, hb, clock, nextId, since, fired, early, killCalled,
                   killed>>

\* GoPixel.push / Tracker.push of a new event
PushOp ==
    /\ nextId <= MaxEvents
    /\ buffer' = Push(buffer, nextId)
    /\ since' = since \o Accepted(buffer, Push(buffer, nextId))
    /\ nextId' = nextId + 1
    /\ ev' = Op("push", "none", NoOutcome, ~BufferFull(buffer))
    /\ UNCHANGED <<gen, payload, cleaned, cleanings, orphans,
                   isStarted, killSwitch, initialized, hook, request, net,
                   tasks, subscription, hb, clock, fired, early, killCalled,
                   killed>>

\* a pushEvent(name) that returns without a word when no factory is found
PushEventByNameSwallows(buf, e, known) ==
    [buffer |-> IF known THEN PushEvent(buf, e) ELSE buf, thrown |-> FALSE]

\* the body of GoPixel.pushEvent(name): known says whether getFactory(name)
\* finds a factory; without one it throws before anything is created
PushEventByName(buf, e, known) ==
    IF ~known
    THEN [buffer |-> buf, thrown |-> TRUE]
    ELSE [buffer |-> PushEvent(buf, e), thrown |-> FALSE]

\* GoPixel.pushEvent(name)
PushEventOp(known) ==
    /\ gen = "promise"
    /\ nextId <= MaxEvents
    /\ LET r == PushEventByName(buffer, nextId, known)
       IN  /\ buffer' = r.buffer
           /\ since' = since \o Accepted(buffer, r.buffer)
           /\ ev' = Op("pushEvent", "none", NoOutcome, ~r.thrown)
    /\ nextId' = IF known THEN nextId + 1 ELSE nextId
    /\ UNCHANGED <<gen, payload, cleaned, cleanings, orphans,
                   isStarted, killSwitch, initialized, hook, request, net,
                   tasks, subscription, hb, clock, fired, early, killCalled,
                   killed>>

\* a kill() that leaves the buffer as it is
KillStateKeepsBuffer(m) ==
    IF gen = "promise"
    THEN [TaskManagerKill([m EXCEPT !.isStarted = FALSE]) EXCEPT !.killed = TRUE]
    ELSE [TaskManagerKill(m) EXCEPT !.killSwitch = TRUE, !.isStarted = FALSE,
                                    !.killed = TRUE]

\* GoPixel.kill / Tracker.kill
KillState(m) ==
    IF gen = "promise"
    THEN [TaskManagerKill([m EXCEPT !.isStarted = FALSE])
            EXCEPT !.buffer = << >>, !.killed = TRUE]
    ELSE [TaskManagerKill(m) EXCEPT !.killSwitch = TRUE, !.isStarted = FALSE,
                                    !.buffer = << >>, !.killed = TRUE]

Kill ==
    /\ Commit(KillState(Machine))
    /\ ev' = Op("kill", "none", NoOutcome, TRUE)
    /\ UNCHANGED <<gen, payload, cleaned, cleanings, orphans,
                   initialized, hook, clock, nextId>>

\* one frame: taskWrapper runs d milliseconds after the last one; c is what the
\* second task's callback does if it is invoked
Tick(d, c) ==
    /\ subscription = "pending"
    /\ clock + d <= MaxTime
    /\ c = "Pending" => Cardinality(hb) < MaxPending
    /\ clock' = clock + d
    /\ Commit(TaskWrapper(Machine, clock + d, c))
    /\ ev' = Op("tick",
                IF TaskWrapperOuts(Machine, clock + d, c)[SendTaskName] = "none"
                THEN "none" ELSE SendCallbackSend(Machine),
                TaskWrapperOuts(Machine, clock + d, c), TRUE)
    /\ UNCHANGED <<gen, payload, cleaned, cleanings, orphans,
                   initialized, hook, nextId>>

\* GoPixel.sendEventBeforeUnload: the listener's body
BeforeUnload(m) ==
    IF m.killSwitch \/ ~m.isStarted THEN m
    ELSE IF Len(m.buffer) = 0 THEN TaskManagerKill(m)
    ELSE SendEvent([TaskManagerKill(m) EXCEPT !.buffer = ConsumeBuffer(m.isStarted, m.buffer)],
                   ConsumeEvents(m.isStarted, m.buffer), "unload", 0, TRUE)

BeforeUnloadSend(m) ==
    IF m.killSwitch \/ ~m.isStarted \/ Len(m.buffer) = 0 THEN "none"
    ELSE SendResult(m.request, ConsumeEvents(m.isStarted, m.buffer))

\* Tracker.flush
Flush(m) == IF ~initialized THEN m ELSE SendEvents(m, "flush", 0)

FlushSend(m) ==
    IF ~initialized \/ SendEventsCode(m) \in {Failure, Skip} THEN "none"
    ELSE SendResult(m.request, ConsumeEvents(m.isStarted, m.buffer))

\* the page's beforeunload signal
Unload ==
    /\ hook
    /\ Commit(IF gen = "promise" THEN BeforeUnload(Machine) ELSE Flush(Machine))
    /\ ev' = Op("unload",
                IF gen = "promise" THEN BeforeUnloadSend(Machine) ELSE FlushSend(Machine),
                NoOutcome, TRUE)
    /\ UNCHANGED <<gen, payload, cleaned, cleanings, orphans,
                   initialized, hook, clock, nextId>>

\* Tracker.flush called by the host
FlushOp ==
    /\ gen = "observable"
    /\ Commit(Flush(Machine))
    /\ ev' = Op("flush", FlushSend(Machine), NoOutcome, TRUE)
    /\ UNCHANGED <<gen, payload, cleaned, cleanings, orphans,
                   initialized, hook, clock, nextId>>

\* the fetch of request r settles with res
Settle(r, res) ==
    /\ r \in net
    /\ Commit(SettleRequest(Machine, r, res))
    /\ ev' = Op("settle", "none",
                IF r.owner = "task"
                THEN [NoOutcome EXCEPT ![SendTaskName] =
                         IF ResultOf(res) # "error" THEN Success ELSE "Reject"]
                ELSE NoOutcome,
                res = "ok")
    /\ UNCHANGED <<gen, payload, cleaned, cleanings, orphans,
                   initialized, hook, clock, nextId>>

\* a pending callback of the second task, invoked at t, settles with c
SettleTask(t, c) ==
    /\ t \in hb
    /\ Commit(OnOutcome([Machine EXCEPT !.hb = @ \ {t}],
                        TaskIndex(tasks, HeartbeatName), t, c))
    /\ ev' = Op("settleTask", "none", [NoOutcome EXCEPT ![HeartbeatName] = c],
                TRUE)
    /\ UNCHANGED <<gen, payload, cleaned, cleanings, orphans,
                   initialized, hook, clock, nextId>>

\* a batch handed to sendEvent by a caller other than the send task
DirectBatches == {<< >>, <<0>>}

\* sendEvent(batch) called directly; observed says whether the caller
\* observes the result.  The step's ret is FALSE when the call answers false
\* at once
DirectSendEvent(batch, observed) ==
    /\ Commit(SendEvent(Machine, batch, "direct", 0, observed))
    /\ ev' = Op("sendEvent", SendResult(request, batch), NoOutcome,
                SendResult(request, batch) = "issued")
    /\ UNCHANGED <<gen, payload, cleaned, cleanings, orphans,
                   initialized, hook, clock, nextId>>

Policies == {StopExecution, Retry, Continue, "undefined"}

\* the program: the tracker with its one registered task, the send task
Next ==
    \/ InitTracking /\ Frozen
    \/ Start /\ Frozen
    \/ PushOp /\ Frozen
    \/ \E known \in BOOLEAN : PushEventOp(known) /\ Frozen
    \/ Kill /\ Frozen
    \/ \E d \in TickSteps : Tick(d, Skip) /\ Frozen
    \/ Unload /\ Frozen
    \/ FlushOp /\ Frozen
    \/ \E r \in net, res \in NetResults : Settle(r, res) /\ Frozen

Spec == Init /\ [][Next]_vars

\* the program together with direct callers of the transport client
NextApi ==
    \/ Next
    \/ \E b \in DirectBatches, o \in BOOLEAN : DirectSendEvent(b, o) /\ Frozen

SpecApi == Init /\ [][NextApi]_vars

\* the scheduler with a second task of any policy registered beside the send
\* task; the host pushes no event beyond the two of init
NextTasks ==
    \/ InitTracking /\ Frozen
    \/ Start /\ Frozen
    \/ \E p \in Policies : AddTask(p) /\ Frozen
    \/ Kill /\ Frozen
    \/ \E d \in TickSteps, c \in HeartbeatBehaviours : Tick(d, c) /\ Frozen
    \/ \E r \in net, res \in NetResults : Settle(r, res) /\ Frozen
    \/ \E t \in hb, c \in SettledBehaviours : SettleTask(t, c) /\ Frozen

SpecTasks == Init /\ [][NextTasks]_vars

\* the first k tasks of machine m
FirstTasks(m, k) == [m EXCEPT !.tasks = SubSeq(m.tasks, 1, k)]

\* machine m with the tasks from index k on of machine whole put back
WithTasksFrom(m, whole, k) ==
    [m EXCEPT !.tasks = @ \o SubSeq(whole.tasks, k, Len(whole.tasks))]

\* TaskManager.start() called while a drive loop exists (GoPixel.init of
\* go-pixel.ts has no guard and calls it each time): one more frame is
\* requested and its id replaces the one held
StartAgain ==
    /\ subscription # "none"
    /\ subscription = "pending" => orphans < MaxOrphans
    /\ orphans' = IF subscription = "pending" THEN orphans + 1 ELSE orphans
    /\ subscription' = "pending"
    /\ ev' = Op("startAgain", "none", NoOutcome, TRUE)
    /\ UNCHANGED <<gen, payload, cleaned, cleanings, buffer, isStarted,
                   killSwitch, initialized, hook, request, net, tasks, hb,
                   clock, nextId, since, fired, early, killCalled, killed>>

\* a frame of a drive loop whose id the scheduler no longer holds:
\* taskWrapper runs, and the frame it requests replaces the id held
OrphanTick(d, c) ==
    /\ orphans > 0
    /\ clock + d <= MaxTime
    /\ c = "Pending" => Cardinality(hb) < MaxPending
    /\ clock' = clock + d
    /\ orphans' = IF subscription = "pending" THEN orphans ELSE orphans - 1
    /\ Commit(TaskWrapper(Machine, clock + d, c))
    /\ ev' = Op("tick",
                IF TaskWrapperOuts(Machine, clock + d, c)[SendTaskName] = "none"
                THEN "none" ELSE SendCallbackSend(Machine),
                TaskWrapperOuts(Machine, clock + d, c), TRUE)
    /\ UNCHANGED <<gen, payload, cleaned, cleanings, initialized, hook, nextId>>

\* taskWrapper at instant now when the callback of task j throws: the tasks
\* before j were invoked, the exception leaves the loop and taskWrapper, no
\* frame is requested, and the promises already settled run their handlers
TaskWrapperThrows(m, j, now) ==
    LET r == RunCallbacks(FirstTasks(m, j - 1), NoOutcome, 1, now, Skip)
        h == RunHandlers([r.m EXCEPT !.subscription = "fired"], r.outs, 1, now)
    IN  WithTasksFrom(h, m, j)

\* a frame in which the second task's callback throws instead of returning
\* a promise
TickThrow(d) ==
    /\ subscription = "pending"
    /\ clock + d <= MaxTime
    /\ TaskIndex(tasks, HeartbeatName) # 0
    /\ ~TooEarly(tasks[TaskIndex(tasks, HeartbeatName)], clock + d)
    /\ clock' = clock + d
    /\ Commit(TaskWrapperThrows(Machine, TaskIndex(tasks, HeartbeatName), clock + d))
    /\ ev' = Op("tick", "none",
                [RunCallbacks(FirstTasks(Machine, TaskIndex(tasks, HeartbeatName) - 1),
                              NoOutcome, 1, clock + d, Skip).outs
                    EXCEPT ![HeartbeatName] = "Throw"],
                FALSE)
    /\ UNCHANGED <<gen, payload, cleaned, cleanings, orphans, initialized, hook,
                   nextId>>

\* what the second task's callback does when it returns a settled promise
\* in the frames of this specification
LoopBehaviours == {Success, Failure}

\* the scheduler when start() may be called again and a callback may throw
NextLoops ==
    \/ InitTracking /\ Frozen
    \/ Start /\ Frozen
    \/ \E p \in Policies : AddTask(p) /\ Frozen
    \/ Kill /\ Frozen
    \/ \E d \in TickSteps, c \in LoopBehaviours : Tick(d, c) /\ Frozen
    \/ \E r \in net, res \in NetResults : Settle(r, res) /\ Frozen
    \/ StartAgain /\ Frozen
    \/ \E d \in TickSteps, c \in LoopBehaviours : OrphanTick(d, c) /\ Frozen
    \/ \E d \in TickSteps : TickThrow(d) /\ Frozen

SpecLoops == Init /\ [][NextLoops]_vars

\* instant t as told on a clock set back by d; an instant more than the
\* longest task interval in the past stays in the past; 0 (no instant) stays
Rebase(t, d) == IF t = 0 THEN 0 ELSE IF t - d < 1 THEN 1 ELSE t - d

\* the machine with every instant it keeps told on a clock set back by d
Rebased(m, d) ==
    [m EXCEPT
       !.tasks   = [i \in DOMAIN m.tasks |->
                       [m.tasks[i] EXCEPT !.lastTime = Rebase(@, d)]],
       !.net     = {[r EXCEPT !.now = Rebase(@, d)] : r \in m.net},
       !.request = [@ EXCEPT !.now = Rebase(@, d)],
       !.hb      = {Rebase(t, d) : t \in m.hb},
       !.fired   = [n \in TaskNames |-> Rebase(m.fired[n], d)]]

\* a frame d after the last instant read, with no end of time: once the
\* clock would pass MaxTime the instants are rebased instead, which keeps
\* every difference the scheduler tests
LiveTick(d) ==
    /\ subscription = "pending"
    /\ LET late == clock + d > MaxTime
           m    == IF late THEN Rebased(Machine, d) ELSE Machine
           now  == IF late THEN clock ELSE clock + d
       IN  /\ clock' = now
           /\ Commit(TaskWrapper(m, now, Skip))
           /\ ev' = Op("tick",
                       IF TaskWrapperOuts(m, now, Skip)[SendTaskName] = "none"
                       THEN "none" ELSE SendCallbackSend(m),
                       TaskWrapperOuts(m, now, Skip), TRUE)
    /\ UNCHANGED <<gen, payload, cleaned, cleanings, orphans, initialized, hook,
                   nextId>>

\* the frames of the drive loop and the successful responses, as steps
LiveFrames == \E d \in TickSteps : LiveTick(d) /\ Observe
LiveResponses == \E r \in net : Settle(r, "ok") /\ Observe

\* the tracker started and never killed, frames without end, every request
\* answered with success
NextLive ==
    \/ InitTracking /\ Observe
    \/ Start /\ Observe
    \/ PushOp /\ Observe
    \/ LiveFrames
    \/ LiveResponses

\* frames occur again and again, and a request in flight is answered
SpecLive ==
    /\ Init
    /\ [][NextLive]_vars
    /\ []<><<LiveFrames>>_vars
    /\ WF_vars(LiveResponses)

\* the tracker with its send task, the history of its steps recorded
NextTraced ==
    \/ InitTracking /\ Observe
    \/ Start /\ Observe
    \/ PushOp /\ Observe
    \/ \E known \in BOOLEAN : PushEventOp(known) /\ Observe
    \/ Kill /\ Observe
    \/ \E d \in TickSteps : Tick(d, Skip) /\ Observe
    \/ Unload /\ Observe
    \/ FlushOp /\ Observe
    \/ \E r \in net, res \in NetResults : Settle(r, res) /\ Observe

SpecTraced == Init /\ [][NextTraced]_vars

\* the trackers' state, left alone by the construction of events
TrackerVars == <<gen, buffer, isStarted, killSwitch, initialized, hook, request,
                 net, tasks, subscription, orphans, hb, clock, nextId, since, fired,
                 early, killCalled, killed, accepted, delivered, preStart,
                 firstBatch, ev>>

\* new WebEvent(type, payload): the constructor stores the cleaned payload
NewWebEvent ==
    /\ cleanings = 0
    /\ cleaned' = CleanUp(payload)
    /\ cleanings' = 1
    /\ UNCHANGED <<payload, TrackerVars>>

\* new WebEvent(type, event.payload): an event built from the payload of
\* an event built before
NewWebEventFromEvent ==
    /\ cleanings = 1
    /\ payload' = cleaned
    /\ cleaned' = CleanUp(cleaned)
    /\ cleanings' = 2
    /\ UNCHANGED TrackerVars

\* any payload of the bounded universe, before an event is built from it;
\* cleanUp is the same function in both assemblies
InitPayload ==
    /\ InitTracker
    /\ InitHistory
    /\ gen = "observable"
    /\ payload \in Payloads(MaxDepth)
    /\ cleaned = NoFields
    /\ cleanings = 0

NextPayload ==
    \/ NewWebEvent
    \/ NewWebEventFromEvent

SpecPayload == InitPayload /\ [][NextPayload]_vars

----------------------------------------------------------------------------
(* Claims *)

\* C1: at most one transport request is outstanding in every reachable state,
\* and a request is issued only in a step that starts with no handle held.
SingleFlight ==
    /\ [](Cardinality(net) <= 1)
    /\ [][net' \ net # {} => request = Undefined]_vars

\* C1 witness: a sendEvent call was turned away while a request was in flight
SingleFlightWitness ==
    /\ ev.send = "busy"
    /\ Cardinality(net) = 1
    /\ request \in net

\* C2: the buffer never holds more than MAX_BUFFER_SIZE events.
BufferWithinCapacity == Len(buffer) <= MAX_BUFFER_SIZE

\* the send task's registered record (only read when the task is registered)
SendTask == tasks[TaskIndex(tasks, SendTaskName)]

\* the step is the failed settling of a request issued by the send task
SendTaskFailureStep ==
    /\ ev'.op = "settle"
    /\ ev'.out[SendTaskName] = "Reject"

\* C3: when the transport call of the send task's drained batch D fails, the
\* buffer afterwards is D followed by the events accepted since the drain, and
\* the send task's error count has grown by exactly 1.
ReinjectionRestoresBuffer ==
    [][SendTaskFailureStep =>
         \A r \in net \ net' :
            /\ buffer' = r.batch \o since
            /\ tasks'[TaskIndex(tasks, SendTaskName)].errors = SendTask.errors + 1]_vars

\* the step is a frame that invokes the send task while the client is busy
BusyInvocationStep ==
    /\ ev'.op = "tick"
    /\ ev'.out[SendTaskName] # "none"
    /\ request # Undefined

\* C4: the send task invoked while the transport client is not free reports
\* Skip, leaves the buffer unchanged and makes no transport call.
BusySkipLeavesBuffer ==
    [][BusyInvocationStep =>
         /\ ev'.out[SendTaskName] = Skip
         /\ buffer' = buffer
         /\ net' = net]_vars

\* C5: two invocations of a task's callback are never less than 1000/fps
\* milliseconds apart.
NoEarlyInvocation == \A n \in TaskNames : ~early[n]

\* a Retry task has reached the threshold
RetryThresholdReached ==
    \E i \in 1..Len(tasks) :
        tasks[i].failurePolicy = Retry /\ tasks[i].errors >= MAX_ERRORS

\* every failure the last operation delivered was a Retry task's, still below
\* the threshold
FailuresBelowThreshold ==
    \A i \in 1..Len(tasks) :
        ev.out[tasks[i].name] \in {Failure, "Reject"} =>
            tasks[i].failurePolicy = Retry /\ tasks[i].errors < MAX_ERRORS

HandleReleasedOnSettle == request # Undefined => request \in net

\* C9: a sendEvent call with a non-empty batch made while a handle is held is
\* turned away: no request is issued and the held handle is left as it was.
OverlappingSendRejected ==
    [][(request # Undefined /\ ev'.send \in {"busy", "issued"}) =>
         /\ ev'.send = "busy"
         /\ request' = request
         /\ net' = net]_vars

\* C9 witness: a direct sendEvent call overlapped an unsettled request
OverlappingSendRejectedWitness ==
    /\ ev.op = "sendEvent"
    /\ ev.send = "busy"
    /\ request \in net

\* C10: a settled Success sets the task's error count to 0, a Skip leaves it,
\* a Failure code or a rejection adds exactly 1 and the policy is applied.
OutcomeHandling ==
    [][ev'.op \in {"tick", "settle", "settleTask"} =>
         \A i \in 1..Len(tasks) :
            LET out == ev'.out[tasks[i].name] IN
            /\ out = Success => tasks'[i].errors = 0
            /\ out = Skip => tasks'[i].errors = tasks[i].errors
            /\ out \in {Failure, "Reject"} =>
                  /\ tasks'[i].errors = tasks[i].errors + 1
                  /\ (\/ tasks[i].failurePolicy = StopExecution
                      \/ (tasks[i].failurePolicy = Retry
                          /\ tasks'[i].errors >= MAX_ERRORS))
                     => subscription' # "pending"]_vars

\* C10 witness: a Skip was delivered to a task that had failed before and its
\* count was kept
OutcomeHandlingWitness ==
    \E i \in 1..Len(tasks) :
        ev.out[tasks[i].name] = Skip /\ tasks[i].errors > 0

\* a StopExecution task has failed
StopFailed ==
    \E i \in 1..Len(tasks) :
        tasks[i].failurePolicy = StopExecution /\ tasks[i].errors >= 1

OnlyContinueFailed ==
    /\ \E i \in 1..Len(tasks) : ev.out[tasks[i].name] \in {Failure, "Reject"}
    /\ \A i \in 1..Len(tasks) :
          ev.out[tasks[i].name] \in {Failure, "Reject"} =>
              tasks[i].failurePolicy = Continue

TrackingLive == isStarted /\ ~killSwitch /\ ~killed

\* C13: the unload signal, with tracking initialized, started and not killed
\* and a non-empty buffer, issues one request that carries the whole buffer.
UnloadSendsWholeBuffer ==
    [][(ev'.op = "unload" /\ initialized /\ TrackingLive /\ buffer # << >>)
       => \E r \in net' \ net : r.batch = buffer]_vars

\* C14: the unload signal, with tracking never started or already killed,
\* issues no request and leaves the buffer and the scheduler as they were.
UnloadDoesNothing ==
    [][(ev'.op = "unload" /\ (~isStarted \/ killSwitch \/ killed))
       => /\ net' = net
          /\ request' = request
          /\ buffer' = buffer
          /\ subscription' = subscription]_vars

\* C15: the unload signal, with tracking started and not killed, leaves no
\* frame of the drive loop pending.
UnloadStopsScheduler ==
    [][(ev'.op = "unload" /\ TrackingLive) => subscription' # "pending"]_vars

\* C16: kill() of the tracker leaves the buffer empty and no frame pending,
\* and does not touch a request in flight or its handle; that request still
\* settles and its settling releases the handle.
KillKeepsFlight ==
    /\ [][ev'.op = "kill"
          => /\ buffer' = << >>
             /\ subscription' # "pending"
             /\ net' = net
             /\ request' = request]_vars
    /\ [][(killed /\ ev'.op = "settle") => request' = Undefined]_vars
    /\ [](killed /\ request # Undefined => request \in net)

\* C16 witness: kill() returned while a request was in flight
KillKeepsFlightWitness ==
    /\ ev.op = "kill"
    /\ request \in net
    /\ buffer = << >>
    /\ subscription = "cancelled"

\* the send task has used up its Retry allowance and kill() was never called
PolicyKilled ==
    /\ TaskIndex(tasks, SendTaskName) # 0
    /\ SendTask.errors >= MAX_ERRORS
    /\ subscription = "cancelled"
    /\ ~killed

\* C17: a kill by the failure policy does not touch the event buffer: the
\* step that kills leaves the buffer as the re-injection made it, later pushes
\* are accepted while there is room, and a later unload flush made while the
\* client is free sends what is buffered.
PolicyKillKeepsBuffer ==
    /\ [][(/\ ev'.op = "settle"
           /\ subscription = "pending"
           /\ subscription' = "cancelled")
          => /\ \A r \in net \ net' : buffer' = r.batch \o buffer
             /\ isStarted' = isStarted
             /\ killSwitch' = killSwitch]_vars
    /\ [][(PolicyKilled /\ ev'.op = "push")
          => buffer' = IF Len(buffer) < MAX_BUFFER_SIZE
                       THEN Append(buffer, nextId) ELSE buffer]_vars
    /\ [][(/\ PolicyKilled
           /\ ev'.op = "unload"
           /\ TrackingLive
           /\ request = Undefined
           /\ buffer # << >>)
          => \E r \in net' \ net : r.batch = buffer]_vars

\* C17 witness: after the policy killed the scheduler, the unload flush issued
\* a request that carries the re-injected events
PolicyKillKeepsBufferWitness ==
    /\ PolicyKilled
    /\ ev.op = "unload"
    /\ ev.send = "issued"
    /\ request \in net
    /\ Len(request.batch) >= 2

\* C18: the scenario, step by step.  A push into a full buffer is dropped; the
\* send task is invoked only when 1000 / 10 ms have passed since its last
\* time, and its invocation with a started tracker, a free client and a
\* non-empty buffer drains the buffer into one request; when that request
\* fails with nothing buffered meanwhile, the buffer is the batch again and
\* the error count is one more; when it succeeds the buffer is left as it is
\* and the error count is 0.
ScenarioSteps ==
    /\ [][(ev'.op = "push" /\ Len(buffer) >= MAX_BUFFER_SIZE)
          => buffer' = buffer /\ ~ev'.ret]_vars
    /\ [][(ev'.op = "tick" /\ ev'.out[SendTaskName] # "none")
          => (clock' - SendTask.lastTime) * SendTaskFps >= 1000]_vars
    /\ [][(/\ ev'.op = "tick"
           /\ ev'.out[SendTaskName] # "none"
           /\ isStarted /\ ~killSwitch
           /\ request = Undefined
           /\ buffer # << >>)
          => /\ buffer' = << >>
             /\ \E r \in net' \ net : r.batch = buffer]_vars
    /\ [][(/\ ev'.op = "settle"
           /\ ev'.out[SendTaskName] = "Reject"
           /\ buffer = << >>)
          => /\ \A r \in net \ net' : buffer' = r.batch
             /\ tasks'[TaskIndex(tasks, SendTaskName)].errors = SendTask.errors + 1]_vars
    /\ [][(ev'.op = "settle" /\ ev'.out[SendTaskName] = Success)
          => /\ buffer' = buffer
             /\ tasks'[TaskIndex(tasks, SendTaskName)].errors = 0]_vars

\* C18 witness: three events were created, the third was dropped, and the
\* first request of the send task has failed
ScenarioStepsWitness ==
    /\ ev.op = "settle"
    /\ ev.out[SendTaskName] = "Reject"
    /\ nextId = 4
    /\ buffer = <<1, 2>>
    /\ since = << >>
    /\ isStarted
    /\ SendTask.errors = 1
    /\ SendTask.lastTime = StartTime

\* a step in which consume() was called: its result is what sendEvent got
ConsumeStep == ev'.op \in {"tick", "unload", "flush"} /\ ev'.send # "none"

\* C19: an accepted push appends at the end of the buffer; consume() on a
\* started tracker returns the whole buffer in that order and leaves it
\* empty, and a consume() right after it returns the empty sequence.
ConsumeReturnsBuffer ==
    /\ [][(ev'.op = "push" /\ ev'.ret) => buffer' = Append(buffer, nextId)]_vars
    /\ [][(ConsumeStep /\ isStarted)
          => /\ buffer' = << >>
             /\ ev'.send = "empty" <=> buffer = << >>
             /\ ev'.send = "issued" => \E r \in net' \ net : r.batch = buffer]_vars
    /\ [](/\ ConsumeEvents(TRUE, buffer) = buffer
          /\ ConsumeBuffer(TRUE, buffer) = << >>
          /\ ConsumeEvents(TRUE, ConsumeBuffer(TRUE, buffer)) = << >>)

\* C19 witness: a consume() returned two events in the order of their pushes
\* and left the buffer empty
ConsumeReturnsBufferWitness ==
    /\ ev.send = "issued"
    /\ request \in net
    /\ Len(request.batch) >= 2
    /\ request.batch[1] < request.batch[2]
    /\ buffer = << >>

\* the events of a sequence
Events(q) == {q[k] : k \in 1..Len(q)}

\* C20: consume() is an atomic swap: a batch it returned and the buffer never
\* share an event, the buffer never holds an event twice, a push made while a
\* batch is in flight goes to the buffer and leaves the batch alone, and the
\* batch a consume() hands to the transport is the whole buffer.
ConsumeIsAtomicSwap ==
    /\ [](\A r \in net : Events(r.batch) \cap Events(buffer) = {})
    /\ [](Cardinality(Events(buffer)) = Len(buffer))
    /\ [][ev'.op \in {"push", "pushEvent"}
          => /\ net' = net
             /\ request' = request
             /\ \A k \in 1..Len(buffer) : buffer'[k] = buffer[k]]_vars
    /\ [][(ConsumeStep /\ isStarted /\ ev'.send = "issued")
          => \E r \in net' \ net :
                /\ Events(r.batch) = Events(buffer)
                /\ Events(buffer') = {}]_vars

\* C20 witness: a push was accepted while a drained batch was in flight
ConsumeIsAtomicSwapWitness ==
    /\ ev.op = "push"
    /\ ev.ret
    /\ request \in net
    /\ request.owner = "task"
    /\ buffer # << >>

\* the smaller of two numbers
Min(a, b) == IF a <= b THEN a ELSE b

ConsumeBeforeStart ==
    /\ [][(ConsumeStep /\ ~isStarted)
          => /\ ev'.send = "empty"
             /\ buffer' = buffer
             /\ net' = net]_vars
    /\ [](/\ ConsumeEvents(FALSE, buffer) = << >>
          /\ ConsumeBuffer(FALSE, buffer) = buffer)

\* C22 witness: after kill() the send task called consume() on a non-empty
\* buffer and got nothing
ConsumeBeforeStartWitness ==
    /\ ev.op = "tick"
    /\ ev.send = "empty"
    /\ ~isStarted
    /\ killed
    /\ buffer # << >>

\* C23: when the request of the send task settles, the task's promise gets
\* Success exactly when the response had a success status; any other status
\* and a network failure reach the task as an error: the batch is put back in
\* front of the buffer and the scheduler counts one more failure.
FailureReachesCaller ==
    [][(ev'.op = "settle" /\ ev'.out[SendTaskName] # "none")
       => /\ ev'.ret <=> ev'.out[SendTaskName] = Success
          /\ ~ev'.ret =>
                /\ ev'.out[SendTaskName] = "Reject"
                /\ \A r \in net \ net' : buffer' = r.batch \o buffer
                /\ tasks'[TaskIndex(tasks, SendTaskName)].errors
                      = SendTask.errors + 1]_vars

\* C23 witness: a request of the send task did not get a success status, the
\* batch is back in the buffer and the failure is counted
FailureReachesCallerWitness ==
    /\ ev.op = "settle"
    /\ ~ev.ret
    /\ ev.out[SendTaskName] = "Reject"
    /\ buffer # << >>
    /\ SendTask.errors >= 1
    /\ request = Undefined

\* C24: sendEvent with an empty batch answers false and does nothing: no
\* request ever carries an empty batch, and a direct call with an empty batch
\* leaves the requests in flight, the handle and everything else in place.
EmptySendIsNoOp ==
    /\ [](\A r \in net \cup {request} : r # Undefined => r.batch # << >>)
    /\ [][ev'.send = "empty" => net' = net /\ request' = request]_vars
    /\ [][(ev'.op = "sendEvent" /\ ev'.send = "empty")
          => /\ ~ev'.ret
             /\ IsFree(request') <=> IsFree(request)
             /\ UNCHANGED <<buffer, isStarted, killSwitch, tasks, subscription,
                            clock, since>>]_vars

\* C24 witness: a direct sendEvent with an empty batch was answered while the
\* client was free, and the client is still free
EmptySendIsNoOpWitness ==
    /\ ev.op = "sendEvent"
    /\ ev.send = "empty"
    /\ ~ev.ret
    /\ request = Undefined
    /\ isStarted
    /\ buffer # << >>

\* C25: TaskManager.kill() is idempotent and does nothing when no frame is
\* pending: applied to a scheduler that was never started or is already
\* killed it returns the same state, applied twice it gives what one call
\* gives, and a tracker kill() in such a state leaves the scheduler as it was.
SchedulerKillIdempotent ==
    /\ [](TaskManagerKill(TaskManagerKill(Machine)) = TaskManagerKill(Machine))
    /\ [](subscription # "pending" => TaskManagerKill(Machine) = Machine)
    /\ [][(ev'.op = "kill" /\ subscription # "pending")
          => UNCHANGED <<subscription, tasks, hb, fired, clock, killCalled>>]_vars

\* C25 witness: kill() was called on a scheduler that the failure policy had
\* already killed
SchedulerKillIdempotentWitness ==
    /\ ev.op = "kill"
    /\ subscription = "cancelled"
    /\ \/ RetryThresholdReached
       \/ StopFailed

\* the scheduler invokes the send task while the buffer holds events and the
\* transport client is free
SendTaskInvokedReady ==
    /\ ev'.op = "tick"
    /\ ev'.out[SendTaskName] # "none"
    /\ buffer # << >>
    /\ request = Undefined

\* C26, as stated: whenever the send task is invoked with a non-empty buffer
\* and a free client, the buffer is drained into one request.
SendTaskAlwaysDrains ==
    [][SendTaskInvokedReady
       => /\ buffer' = << >>
          /\ \E r \in net' \ net : r.batch = buffer]_vars

\* C26: when the send task is invoked on a started, not killed tracker with
\* a non-empty buffer and a free client, it drains the whole buffer into one
\* request and its promise stays pending; when that request succeeds the task
\* reports Success and no event of the batch is in the buffer.
SendTaskDrainsWhenStarted ==
    /\ [][(SendTaskInvokedReady /\ isStarted /\ ~killSwitch)
          => /\ buffer' = << >>
             /\ ev'.out[SendTaskName] = "Pending"
             /\ net' \ net = {request'}
             /\ request'.batch = buffer]_vars
    /\ [][(ev'.op = "settle" /\ ev'.out[SendTaskName] # "none" /\ ev'.ret)
          => /\ ev'.out[SendTaskName] = Success
             /\ \A r \in net \ net' :
                   Events(r.batch) \cap Events(buffer') = {}]_vars

\* C26 witness: the request that carried the whole buffer succeeded, events
\* buffered meanwhile are still there and the drained ones are not
SendTaskDrainsWhenStartedWitness ==
    /\ ev.op = "settle"
    /\ ev.out[SendTaskName] = Success
    /\ isStarted
    /\ request = Undefined
    /\ buffer # << >>
    /\ buffer = since

\* no key of p, at any depth, is mapped to undefined or null
RECURSIVE NoNullish(_)
NoNullish(p) ==
    \A k \in DOMAIN p :
        /\ p[k].tag # "undefined"
        /\ p[k].tag # "null"
        /\ p[k].tag = "payload" => NoNullish(p[k].fields)

\* c keeps every key of p that holds a payload or a value that is neither
\* undefined nor null, the values as they were and the payloads kept likewise
RECURSIVE KeepsValues(_, _)
KeepsValues(p, c) ==
    /\ DOMAIN c \subseteq DOMAIN p
    /\ \A k \in DOMAIN p :
          /\ p[k].tag = "zero" => k \in DOMAIN c /\ c[k] = p[k]
          /\ p[k].tag = "payload"
                => /\ k \in DOMAIN c
                   /\ c[k].tag = "payload"
                   /\ KeepsValues(p[k].fields, c[k].fields)

\* C27: the payload an event stores has no key mapped to undefined or null
\* at any depth, keeps every key of the payload it was built from whose value
\* is neither, and keeps every key whose value is a nested payload, cleaned,
\* even when nothing is left in it.
CleanedPayloadShape ==
    cleanings > 0 => NoNullish(cleaned) /\ KeepsValues(payload, cleaned)

\* C27 witness: a key mapped to null was dropped, a 0 was kept, and a nested
\* payload holding only undefined was kept as an empty payload
CleanedPayloadShapeWitness ==
    /\ cleanings = 1
    /\ payload = [k \in Keys |-> IF k = "a"
                                THEN Nested([j \in Keys |-> [tag |-> "undefined", fields |-> NoFields]])
                                ELSE [tag |-> "null", fields |-> NoFields]]
    /\ cleaned = [k \in {"a"} |-> Nested(NoFields)]

\* C28: cleaning is idempotent: cleaning the payload an event stores gives
\* that payload again, and an event built from a payload with no undefined
\* or null at any depth stores an identical payload.
CleaningIdempotent ==
    /\ cleanings > 0 => CleanUp(cleaned) = cleaned
    /\ cleanings = 2 => cleaned = payload
    /\ (cleanings > 0 /\ NoNullish(payload)) => cleaned = payload

\* C28 witness: a second event built from a cleaned payload that holds an
\* emptied nested payload stores the same payload
CleaningIdempotentWitness ==
    /\ cleanings = 2
    /\ payload = [k \in Keys |-> IF k = "a"
                                THEN Nested(NoFields)
                                ELSE [tag |-> "zero", fields |-> NoFields]]
    /\ cleaned = payload

\* C29: a pushEvent for a name with no registered factory throws and leaves
\* the buffer, and the events created, as they were; a pushEvent for a
\* registered name returns with its event appended; so a pushEvent returns
\* normally exactly when the buffer gained the event.
UnknownFactoryThrows ==
    /\ [][PushEventOp(FALSE)
          => ~ev'.ret /\ buffer' = buffer /\ nextId' = nextId]_vars
    /\ [][PushEventOp(TRUE)
          => ev'.ret /\ buffer' = Append(buffer, nextId)]_vars
    /\ [][ev'.op = "pushEvent" => (ev'.ret <=> buffer' # buffer)]_vars

\* C29 witness: a pushEvent threw while the buffer held the two events of
\* init, which are still there
UnknownFactoryThrowsWitness ==
    /\ ev.op = "pushEvent"
    /\ ~ev.ret
    /\ initialized
    /\ buffer = <<1, 2>>

\* C30: once a tick at time t has invoked a task's callback, the task's
\* last-fire timestamp is t, whatever has become of the callback since, so
\* that later ticks measure the elapsed time from t.
LastFireSetOnInvocation ==
    \A i \in 1..Len(tasks) :
        fired[tasks[i].name] # 0 => tasks[i].lastTime = fired[tasks[i].name]

\* an invocation of the send task is in flight: the request its callback
\* issued has not settled, so the promise it returned is pending
SendTaskRunning == \E r \in net : r.owner = "task"

\* C31: a task's callback is not invoked while an earlier invocation of the
\* same task is in flight: a tick taken while the send task is running does
\* not invoke the send task.
NoReentrantInvocation ==
    [][(ev'.op = "tick" /\ SendTaskRunning)
       => ev'.out[SendTaskName] = "none"]_vars

\* C32: when a request settles, the transport client has released its handle
\* by the time the caller's success or error handler runs: the handler of
\* every observed request finds the client free.
ReleasedBeforeHandler ==
    [][ev'.op = "settle"
       => \A r \in net \ net' :
             r.observed => IsFree(AtHandler(Machine, r).request)]_vars

\* start() has not been called
NeverStarted == TaskIndex(tasks, SendTaskName) = 0

\* p is an initial part of q
IsPrefix(p, q) == Len(p) <= Len(q) /\ SubSeq(q, 1, Len(p)) = p

\* C33: events pushed before start() stay in the buffer in push order, no
\* request is issued before start(), and the first batch handed to the
\* transport after start() begins with those events in push order (when no
\* kill() discarded them).
PreStartEventsSentFirst ==
    /\ NeverStarted => net = {} /\ firstBatch = << >>
    /\ (NeverStarted /\ ~killed) => buffer = accepted /\ preStart = accepted
    /\ (firstBatch # << >> /\ ~killed) => IsPrefix(preStart, firstBatch)

\* C33 witness: the first batch carries an event pushed before start()
\* followed by one pushed after it
PreStartEventsSentFirstWitness ==
    /\ ~killed
    /\ preStart # << >>
    /\ IsPrefix(preStart, firstBatch)
    /\ Len(firstBatch) > Len(preStart)

\* a request is in flight and the transport client holds its handle
Hanging == request # Undefined /\ request \in net

\* C34: while a request hangs, every tick leaves the buffer, the send task's
\* error count and the drive loop as they were, and every invocation of the
\* send task has outcome Skip.
HangOnlySkips ==
    [][(Hanging /\ ev'.op = "tick")
       => /\ ev'.out[SendTaskName] \in {"none", Skip}
          /\ buffer' = buffer
          /\ SendTask'.errors = SendTask.errors
          /\ subscription' = subscription
          /\ request' = request]_vars

\* the events carried by the requests that have not settled
InFlight == UNION {Events(r.batch) : r \in net}

\* in how many of the three places event e is
Places(e) ==
    (IF e \in Events(buffer) THEN 1 ELSE 0)
    + (IF e \in InFlight THEN 1 ELSE 0)
    + (IF e \in delivered THEN 1 ELSE 0)

\* C35: as long as kill() has not been called, every event the buffer took
\* in is in exactly one place: the buffer, the batch of a request in flight,
\* or a batch whose request succeeded.
EventConservation ==
    ~killed => \A e \in Events(accepted) : Places(e) = 1

\* C36: after kill(), a request that was in flight and then fails does not
\* put its events back: a request settling after kill() leaves the buffer
\* as it is.
NoReinjectionAfterKill ==
    [][(killed /\ ev'.op = "settle") => buffer' = buffer]_vars

\* the frame callbacks that are pending
PendingFrames == orphans + (IF subscription = "pending" THEN 1 ELSE 0)

\* C37: whatever start() and kill() calls are made, at most one frame
\* callback is pending, and once kill() has cancelled the frame no tick
\* occurs unless start() is called again.
SingleDriveLoop ==
    /\ [](PendingFrames <= 1)
    /\ [][subscription = "cancelled" => ev'.op # "tick"]_vars

\* C38: as long as kill() has not been called, the drive loop re-arms itself
\* after every tick: after a tick of a scheduler nobody killed, a frame is
\* pending unless the failure policy stopped the loop, also when a callback
\* threw; and the tick that threw counted a failure for that task.
LoopSurvivesThrow ==
    /\ [][(ev'.op = "tick" /\ ~killed /\ ~killCalled')
          => subscription' = "pending"]_vars
    /\ [][(ev'.op = "tick" /\ ev'.out[HeartbeatName] = "Throw")
          => tasks'[TaskIndex(tasks, HeartbeatName)].errors
               = tasks[TaskIndex(tasks, HeartbeatName)].errors + 1]_vars

\* C39: once EventSender.kill() has set the kill switch, it stays set, no
\* request is issued any more, and no send drains the buffer: whatever push,
\* start, frame or flush follows, the buffered events stay where they are
\* (until another kill() clears them).
SenderKillIsPermanent ==
    /\ [][killSwitch => killSwitch']_vars
    /\ [][killSwitch => net' \subseteq net]_vars
    /\ [][(killSwitch /\ ev'.op # "kill")
          => IsPrefix(buffer, buffer') \/ ev'.op = "settle"]_vars
    /\ [][(killSwitch /\ ev'.op \in {"tick", "flush", "unload"})
          => /\ ev'.send = "none"
             /\ ev'.out[SendTaskName] \in {"none", Skip, Failure}
             /\ buffer' = buffer]_vars

\* C39 witness: after kill() and a later start(), a frame invoked the send
\* task with events buffered, and it skipped
SenderKillIsPermanentWitness ==
    /\ killSwitch
    /\ isStarted
    /\ buffer # << >>
    /\ ev.op = "tick"
    /\ ev.out[SendTaskName] = Skip
    /\ net = {}

\* C40: when the tracker is started and never killed, frames keep coming
\* and every request succeeds, every event the buffer took in is eventually
\* in a batch whose request succeeded.
EveryEventDelivered ==
    \A e \in 1..MaxEvents :
        (e \in Events(accepted) /\ isStarted /\ subscription = "pending")
            ~> (e \in delivered)

====
